---- MODULE Spec2Model ----
(***************************************************************************)
(* NexentaEdgeISCSIDriver (cinder/volume/drivers/nexenta/nexentaedge/      *)
(* iscsi_ne.py): the name map (volume name -> LUN number), its copy in the *)
(* bucket metadata key X-Name-Map, LUN-number allocation, and the REST     *)
(* sequences of the volume / snapshot / clone operations.                  *)
(*                                                                         *)
(* One driver instance runs its operations one after the other.  Every     *)
(* REST call either succeeds (and has its effect on the backend) or raises *)
(* NexentaException (and has none); which one is chosen freely.            *)
(*                                                                         *)
(* Volume names are modelled as natural numbers (name n stands for the     *)
(* string "volume-n"); LUN numbers are the integers the code uses.         *)
(***************************************************************************)
EXTENDS Integers, FiniteSets, Sequences, TLC

\* ------------------------------------------------------------ bounds ----

\* Operations are invoked with the volume names 1..NumNames.
NumNames == 2

\* At most MaxFailures REST calls fail in one run of the driver.
MaxFailures == 1

\* ------------------------------------------------- program constants ----

\* range(1, 256): the highest LUN number the allocator hands out.
LUN_MAX == 255

\* Python's None, as the value of lunNumber before the scan finds a number.
None == 0

\* The absent name argument of an operation that takes only one name.
NoName == 0 - 1

OpNames == 1 .. NumNames

\* -------------------------------------------------------------- state ----

VARIABLES
    name_map,      \* self.name_map: function volume name -> LUN number
    has_name_map,  \* whether do_setup has assigned self.name_map
    target_name,   \* self.target_name: "" until do_setup has read it
    setup,         \* "new", then how do_setup ended: "done", "returned_exc", "raised"
    meta,          \* the bucket's metadata: [has |-> X-Name-Map present, text |-> its JSON]
    track,         \* what of the backend this run follows: "none", "luns", "created", "all"
    luns,          \* backend: numbers of the iSCSI LUNs that exist
    created,       \* backend: numbers a create-LUN call has ever succeeded for
    objects,       \* backend: names of the objects made by clone / snapshot restore
    fails,         \* how many REST calls have failed so far
    last,          \* the operation that ended last: its arguments, REST calls, result
    prev,          \* the operation before it, for create-then-delete and delete-then-create
    threads,       \* concurrent create_volume calls on this instance: where each one is
    active,        \* which driver instance the variables above belong to: "A" or "B"
    other          \* the attributes of the driver instance that is not the active one

vars == <<name_map, has_name_map, target_name, setup, meta, track, luns, created, objects,
          fails, last, prev, threads, active, other>>

\* ------------------------------------------------------------ helpers ----

EmptyMap == [k \in {} |-> 0]

Values(map) == {map[k] : k \in DOMAIN map}

\* json.dumps(self.name_map): the JSON object, as its set of "key": value pairs.
json_dumps(map) == {<<k, map[k]>> : k \in DOMAIN map}

\* json.loads(text): the dict holding each key of the JSON object with its value.
json_loads(text) ==
    [k \in {p[1] : p \in text} |-> (CHOOSE p \in text : p[1] = k)[2]]

\* An assignment that replaces the whole map by the one new entry.
put_alone(map, name, lunNumber) == [k \in {name} |-> lunNumber]

\* self.name_map[name] = lunNumber
Put(map, name, lunNumber) ==
    [k \in (DOMAIN map) \cup {name} |-> IF k = name THEN lunNumber ELSE map[k]]

\* A delete that forgets to drop the entry.
pop_nothing(map, name) == map

\* self.name_map.pop(name)
Pop(map, name) == [k \in (DOMAIN map) \ {name} |-> map[k]]

\* One REST request and whether it succeeded.
Call(kind, n, ok) == [call |-> kind, n |-> n, ok |-> ok]

\* _get_bucket_name_map, given the response of the bucket GET.
_get_bucket_name_map(m) == IF ~m.has THEN EmptyMap ELSE json_loads(m.text)

\* _set_bucket_name_map: the metadata the bucket holds after a successful PUT.
_set_bucket_name_map(map) == [has |-> TRUE, text |-> json_dumps(map)]

\* _verify_name_in_map: TRUE when it returns, FALSE when it raises.
_verify_name_in_map(map, name) == name \in DOMAIN map

\* _get_lun_from_name: the stored number, None standing for the raise.
_get_lun_from_name(map, name) ==
    IF _verify_name_in_map(map, name) THEN map[name] ELSE None

\* The loop "for i in range(lo, hi + 1)" of _allocate_lun_number: the first i,
\* in ascending order, that equals no value of the map (the inner loop leaves
\* exists False), None when the loop ends without one.  The range is walked
\* in two halves, the lower one first, to keep the evaluation shallow.
RECURSIVE AllocScan(_, _, _)
AllocScan(used, lo, hi) ==
    IF lo > hi THEN None
    ELSE IF lo = hi THEN (IF lo \in used THEN None ELSE lo)
    ELSE LET mid == (lo + hi) \div 2
             first == AllocScan(used, lo, mid)
         IN  IF first # None THEN first ELSE AllocScan(used, mid + 1, hi)

\* Faulty allocators.  Never reusing a number (one past the highest in use):
alloc_never_reuse(map) ==
    LET used == Values(map)
        top == IF used = {} THEN 0 ELSE CHOOSE n \in used : \A m \in used : m <= n
    IN  IF top + 1 > LUN_MAX THEN None ELSE top + 1

\* counting the entries instead of scanning the numbers in use:
alloc_by_count(map) ==
    IF Cardinality(DOMAIN map) + 1 > LUN_MAX THEN None
    ELSE Cardinality(DOMAIN map) + 1

\* scanning range(1, 257):
alloc_one_past(map) == AllocScan(Values(map), 1, LUN_MAX + 1)

\* _allocate_lun_number: None stands for the raise "All 255 lun numbers used".
_allocate_lun_number(map) == AllocScan(Values(map), 1, LUN_MAX)

\* ------------------------------------------------------- initial state ----

\* The map of a bucket in which an earlier run of the driver created 255
\* volumes, named NumNames, NumNames + 1, ...: LUNs 1..254 belong to the names
\* after NumNames and LUN 255 to the volume NumNames (made last).
FullMap ==
    [k \in NumNames .. (NumNames + LUN_MAX - 1) |->
        IF k = NumNames THEN LUN_MAX ELSE k - NumNames]

\* What the bucket may hold when the driver starts: no X-Name-Map key, or the
\* map an earlier run left there.
InitMetas == {[has |-> FALSE, text |-> {}], _set_bucket_name_map(FullMap)}

NoOp == [op |-> "none", name |-> NoName, src |-> NoName, result |-> "ok",
         calls |-> <<>>, ret |-> None, lun |-> None, pre_map |-> EmptyMap,
         stale |-> FALSE]

NoPrev == [op |-> "none", name |-> NoName, lun |-> None, pre_map |-> EmptyMap]

\* The callers that may be inside create_volume of one instance at a time.
Threads == {"t1", "t2"}

\* A caller that has not entered create_volume.
NoBody == [has |-> FALSE, text |-> {}]

NoThread == [pc |-> "idle", name |-> NoName, lunNumber |-> None, body |-> NoBody]

\* The attributes __init__ leaves in a driver instance.
NewInstance == [name_map |-> EmptyMap, has_name_map |-> FALSE,
                target_name |-> "", setup |-> "new"]

\* __init__: no restapi, no target_name, no name_map yet; the backend holds
\* the LUNs its persisted map names.
InitDriver ==
    /\ name_map = EmptyMap
    /\ has_name_map = FALSE
    /\ target_name = ""
    /\ setup = "new"
    /\ meta \in InitMetas
    /\ luns = Values(_get_bucket_name_map(meta))
    /\ created = {}
    /\ objects = {}
    /\ fails = 0
    /\ last = NoOp
    /\ prev = NoPrev
    /\ threads = [t \in Threads |-> NoThread]
    /\ active = "A"
    /\ other = NewInstance

\* What the driver does never depends on luns, created and objects (it learns
\* of the backend only through the outcome of its REST calls), so Spec leaves
\* them as they start, SpecLuns follows the LUNs, SpecEmpty the numbers ever
\* created and SpecBackend the LUNs and the objects.
Init == InitDriver /\ track = "none"

InitLuns == InitDriver /\ track = "luns"

InitBackend == InitDriver /\ track = "all"

TrackLuns == track \in {"luns", "all"}

TrackCreated == track = "created"

TrackObjects == track = "all"

\* The outcomes of an operation that issues up to n REST calls: 0 when every
\* call succeeds, i when the i-th call raises.
FailPoints(n) == IF fails < MaxFailures THEN 0 .. n ELSE {0}

\* The calls an operation issued when its sequence seq met outcome fail_at:
\* all of seq, or seq up to the call that raised.
Issued(seq, fail_at) ==
    IF fail_at = 0 THEN seq
    ELSE [i \in 1 .. fail_at |-> [seq[i] EXCEPT !.ok = (i < fail_at)]]

\* The record of the operation that has just ended.  pre_map, the name map the
\* operation started from, is kept for a successful create_volume only; stale
\* tells whether the bucket held another map than self.name_map then.  prev
\* keeps the operation before this one for two sequences: a successful
\* create_volume followed by delete_volume of the same name, and a successful
\* delete_volume followed by create_volume.
Done(op, name, src, result, calls, ret, lun) ==
    /\ last' = [op |-> op, name |-> name, src |-> src, result |-> result,
                calls |-> calls, ret |-> ret, lun |-> lun,
                pre_map |-> IF op = "create_volume" /\ result = "ok"
                            THEN name_map ELSE EmptyMap,
                stale |-> has_name_map /\ meta.text # json_dumps(name_map)]
    /\ prev' = IF /\ last.result = "ok"
                  /\ \/ /\ last.op = "create_volume"
                        /\ op = "delete_volume"
                        /\ name = last.name
                     \/ /\ last.op = "delete_volume"
                        /\ op = "create_volume"
               THEN [op |-> last.op, name |-> last.name, lun |-> last.lun,
                     pre_map |-> last.pre_map]
               ELSE NoPrev
    /\ fails' = IF result \in {"RestError", "returned_exc"} THEN fails + 1 ELSE fails
    /\ created' = IF TrackCreated
                  THEN created \cup {calls[i].n : i \in {j \in DOMAIN calls :
                                          calls[j].call = "POST_iscsi" /\ calls[j].ok}}
                  ELSE created
    /\ UNCHANGED <<threads, active, other>>

\* --------------------------------------------------------- operations ----

do_setup ==
    /\ setup = "new"
    /\ UNCHANGED <<track, meta, luns, objects>>
    /\ \E fail_at \in FailPoints(2) :
       LET calls == Issued(<<Call("GET_status", None, TRUE),
                             Call("GET_bucket", None, TRUE)>>, fail_at)
       IN
       IF fail_at = 1
       THEN \* except Exception as exc: ... return exc
            /\ setup' = "returned_exc"
            /\ UNCHANGED <<name_map, has_name_map, target_name>>
            /\ Done("do_setup", NoName, NoName, "returned_exc", calls, None, None)
       ELSE IF fail_at = 2
       THEN \* _get_bucket_name_map raises out of do_setup
            /\ setup' = "raised"
            /\ target_name' = "iqn"
            /\ UNCHANGED <<name_map, has_name_map>>
            /\ Done("do_setup", NoName, NoName, "RestError", calls, None, None)
       ELSE /\ setup' = "done"
            /\ target_name' = "iqn"
            /\ name_map' = _get_bucket_name_map(meta)
            /\ has_name_map' = TRUE
            /\ Done("do_setup", NoName, NoName, "ok", calls, None, None)

\* A create_volume that records the name before the create LUN call.
create_volume_map_first(name) ==
    /\ has_name_map
    /\ UNCHANGED <<track, has_name_map, target_name, setup, objects>>
    /\ LET lunNumber == _allocate_lun_number(name_map) IN
       IF lunNumber = None
       THEN /\ UNCHANGED <<name_map, meta, luns>>
            /\ Done("create_volume", name, NoName, "LunSpaceExhausted",
                    <<>>, None, None)
       ELSE \E fail_at \in FailPoints(2) :
            LET calls == Issued(<<Call("POST_iscsi", lunNumber, TRUE),
                                  Call("PUT_meta", None, TRUE)>>, fail_at)
            IN
            /\ name_map' = Put(name_map, name, lunNumber)
            /\ luns' = (IF TrackLuns /\ fail_at # 1 THEN luns \cup {lunNumber} ELSE luns)
            /\ meta' = IF fail_at = 0 THEN _set_bucket_name_map(name_map') ELSE meta
            /\ Done("create_volume", name, NoName,
                    IF fail_at = 0 THEN "ok" ELSE "RestError", calls,
                    IF fail_at = 0 THEN lunNumber ELSE None, lunNumber)
\* A create_volume whose save keeps the pairs of the bucket under other names.
create_volume_merge_put(name) ==
    /\ has_name_map
    /\ UNCHANGED <<track, has_name_map, target_name, setup, objects>>
    /\ LET lunNumber == _allocate_lun_number(name_map) IN
       IF lunNumber = None
       THEN /\ UNCHANGED <<name_map, meta, luns>>
            /\ Done("create_volume", name, NoName, "LunSpaceExhausted",
                    <<>>, None, None)
       ELSE \E fail_at \in FailPoints(2) :
            LET calls == Issued(<<Call("POST_iscsi", lunNumber, TRUE),
                                  Call("PUT_meta", None, TRUE)>>, fail_at)
            IN
            IF fail_at = 1
            THEN /\ UNCHANGED <<name_map, meta, luns>>
                 /\ Done("create_volume", name, NoName, "RestError",
                         calls, None, lunNumber)
            ELSE /\ luns' = (IF TrackLuns THEN luns \cup {lunNumber} ELSE luns)
                 /\ name_map' = Put(name_map, name, lunNumber)
                 /\ IF fail_at = 2
                    THEN /\ UNCHANGED meta
                         /\ Done("create_volume", name, NoName, "RestError",
                                 calls, None, lunNumber)
                    ELSE /\ meta' = [has |-> TRUE,
                                     text |-> json_dumps(name_map') \cup
                                              {q \in meta.text : q[1] \notin DOMAIN name_map'}]
                         /\ Done("create_volume", name, NoName, "ok", calls,
                                 _get_lun_from_name(name_map', name), lunNumber)

create_volume(name) ==
    /\ has_name_map
    /\ UNCHANGED <<track, has_name_map, target_name, setup, objects>>
    /\ LET lunNumber == _allocate_lun_number(name_map) IN
       IF lunNumber = None
       THEN /\ UNCHANGED <<name_map, meta, luns>>
            /\ Done("create_volume", name, NoName, "LunSpaceExhausted",
                    <<>>, None, None)
       ELSE \E fail_at \in FailPoints(2) :
            LET calls == Issued(<<Call("POST_iscsi", lunNumber, TRUE),
                                  Call("PUT_meta", None, TRUE)>>, fail_at)
            IN
            IF fail_at = 1
            THEN /\ UNCHANGED <<name_map, meta, luns>>
                 /\ Done("create_volume", name, NoName, "RestError",
                         calls, None, lunNumber)
            ELSE /\ luns' = (IF TrackLuns THEN luns \cup {lunNumber} ELSE luns)
                 /\ name_map' = Put(name_map, name, lunNumber)
                 /\ IF fail_at = 2
                    THEN /\ UNCHANGED meta
                         /\ Done("create_volume", name, NoName, "RestError",
                                 calls, None, lunNumber)
                    ELSE /\ meta' = _set_bucket_name_map(name_map')
                         /\ Done("create_volume", name, NoName, "ok", calls,
                                 _get_lun_from_name(name_map', name), lunNumber)

\* A delete_volume that drops the entry before the delete LUN call.
delete_volume_pop_first(name) ==
    /\ has_name_map
    /\ UNCHANGED <<track, has_name_map, target_name, setup>>
    /\ LET lunNumber == _get_lun_from_name(name_map, name) IN
       IF lunNumber = None
       THEN /\ UNCHANGED <<name_map, meta, luns, objects>>
            /\ Done("delete_volume", name, NoName, "UnknownVolume", <<>>, None, None)
       ELSE \E fail_at \in FailPoints(2) :
            LET calls == Issued(<<Call("DELETE_iscsi", lunNumber, TRUE),
                                  Call("PUT_meta", None, TRUE)>>, fail_at)
            IN
            /\ name_map' = Pop(name_map, name)
            /\ luns' = (IF TrackLuns /\ fail_at # 1 THEN luns \ {lunNumber} ELSE luns)
            /\ objects' = (IF TrackObjects /\ fail_at # 1 THEN objects \ {lunNumber} ELSE objects)
            /\ meta' = IF fail_at = 0 THEN _set_bucket_name_map(name_map') ELSE meta
            /\ Done("delete_volume", name, NoName,
                    IF fail_at = 0 THEN "ok" ELSE "RestError", calls, None, lunNumber)

delete_volume(name) ==
    /\ has_name_map
    /\ UNCHANGED <<track, has_name_map, target_name, setup>>
    /\ LET lunNumber == _get_lun_from_name(name_map, name) IN
       IF lunNumber = None
       THEN /\ UNCHANGED <<name_map, meta, luns, objects>>
            /\ Done("delete_volume", name, NoName, "UnknownVolume", <<>>, None, None)
       ELSE \E fail_at \in FailPoints(2) :
            LET calls == Issued(<<Call("DELETE_iscsi", lunNumber, TRUE),
                                  Call("PUT_meta", None, TRUE)>>, fail_at)
            IN
            IF fail_at = 1
            THEN /\ UNCHANGED <<name_map, meta, luns, objects>>
                 /\ Done("delete_volume", name, NoName, "RestError",
                         calls, None, lunNumber)
            ELSE /\ luns' = (IF TrackLuns THEN luns \ {lunNumber} ELSE luns)
                 /\ objects' = (IF TrackObjects THEN objects \ {lunNumber} ELSE objects)
                 /\ name_map' = Pop(name_map, name)
                 /\ meta' = IF fail_at = 2 THEN meta
                            ELSE _set_bucket_name_map(name_map')
                 /\ Done("delete_volume", name, NoName,
                         IF fail_at = 2 THEN "RestError" ELSE "ok",
                         calls, None, lunNumber)

extend_volume(name) ==
    /\ has_name_map
    /\ UNCHANGED <<track, name_map, has_name_map, target_name, setup, meta, luns, objects>>
    /\ LET lunNumber == _get_lun_from_name(name_map, name) IN
       IF lunNumber = None
       THEN Done("extend_volume", name, NoName, "UnknownVolume", <<>>, None, None)
       ELSE \E fail_at \in FailPoints(1) :
            Done("extend_volume", name, NoName,
                 IF fail_at = 1 THEN "RestError" ELSE "ok",
                 Issued(<<Call("POST_resize", lunNumber, TRUE)>>, fail_at),
                 None, lunNumber)

create_volume_from_snapshot(name, src) ==
    /\ has_name_map
    /\ UNCHANGED <<track, has_name_map, target_name, setup>>
    /\ LET lunNumber == _get_lun_from_name(name_map, src) IN
       IF lunNumber = None
       THEN /\ UNCHANGED <<name_map, meta, luns, objects>>
            /\ Done("create_volume_from_snapshot", name, src, "UnknownVolume",
                    <<>>, None, None)
       ELSE
       LET newLun == _allocate_lun_number(name_map) IN
       IF newLun = None
       THEN /\ UNCHANGED <<name_map, meta, luns, objects>>
            /\ Done("create_volume_from_snapshot", name, src, "LunSpaceExhausted",
                    <<>>, None, None)
       ELSE \E fail_at \in FailPoints(3) :
            LET calls == Issued(<<Call("POST_restore", lunNumber, TRUE),
                                  Call("POST_iscsi", newLun, TRUE),
                                  Call("PUT_meta", None, TRUE)>>, fail_at)
            IN
            IF fail_at = 1
            THEN /\ UNCHANGED <<name_map, meta, luns, objects>>
                 /\ Done("create_volume_from_snapshot", name, src, "RestError",
                         calls, None, newLun)
            ELSE IF fail_at = 2
            THEN /\ objects' = (IF TrackObjects THEN objects \cup {newLun} ELSE objects)
                 /\ UNCHANGED <<name_map, meta, luns>>
                 /\ Done("create_volume_from_snapshot", name, src, "RestError",
                         calls, None, newLun)
            ELSE /\ objects' = (IF TrackObjects THEN objects \cup {newLun} ELSE objects)
                 /\ luns' = (IF TrackLuns THEN luns \cup {newLun} ELSE luns)
                 /\ name_map' = Put(name_map, name, newLun)
                 /\ meta' = IF fail_at = 3 THEN meta
                            ELSE _set_bucket_name_map(name_map')
                 /\ Done("create_volume_from_snapshot", name, src,
                         IF fail_at = 3 THEN "RestError" ELSE "ok",
                         calls, None, newLun)

create_snapshot(name) ==
    /\ has_name_map
    /\ UNCHANGED <<track, name_map, has_name_map, target_name, setup, meta, luns, objects>>
    /\ LET lunNumber == _get_lun_from_name(name_map, name) IN
       IF lunNumber = None
       THEN Done("create_snapshot", name, NoName, "UnknownVolume", <<>>, None, None)
       ELSE \E fail_at \in FailPoints(1) :
            Done("create_snapshot", name, NoName,
                 IF fail_at = 1 THEN "RestError" ELSE "ok",
                 Issued(<<Call("POST_snapshot", lunNumber, TRUE)>>, fail_at),
                 None, lunNumber)

\* A delete_snapshot that takes the volume's entry out of the map and saves it.
delete_snapshot_pops(name) ==
    /\ has_name_map
    /\ UNCHANGED <<track, has_name_map, target_name, setup, luns, objects>>
    /\ LET lunNumber == _get_lun_from_name(name_map, name) IN
       IF lunNumber = None
       THEN /\ UNCHANGED <<name_map, meta>>
            /\ Done("delete_snapshot", name, NoName, "UnknownVolume", <<>>, None, None)
       ELSE \E fail_at \in FailPoints(1) :
            /\ name_map' = (IF fail_at = 1 THEN name_map ELSE Pop(name_map, name))
            /\ meta' = (IF fail_at = 1 THEN meta ELSE _set_bucket_name_map(name_map'))
            /\ Done("delete_snapshot", name, NoName,
                    IF fail_at = 1 THEN "RestError" ELSE "ok",
                    Issued(<<Call("DELETE_snapshot", lunNumber, TRUE)>>, fail_at),
                    None, lunNumber)

delete_snapshot(name) ==
    /\ has_name_map
    /\ UNCHANGED <<track, name_map, has_name_map, target_name, setup, meta, luns, objects>>
    /\ LET lunNumber == _get_lun_from_name(name_map, name) IN
       IF lunNumber = None
       THEN Done("delete_snapshot", name, NoName, "UnknownVolume", <<>>, None, None)
       ELSE \E fail_at \in FailPoints(1) :
            Done("delete_snapshot", name, NoName,
                 IF fail_at = 1 THEN "RestError" ELSE "ok",
                 Issued(<<Call("DELETE_snapshot", lunNumber, TRUE)>>, fail_at),
                 None, lunNumber)

\* A create_cloned_volume that issues the clone call before it allocates.
create_cloned_volume_clone_first(name, src) ==
    /\ has_name_map
    /\ UNCHANGED <<track, has_name_map, target_name, setup>>
    /\ LET lunNumber == _get_lun_from_name(name_map, src) IN
       IF lunNumber = None
       THEN /\ UNCHANGED <<name_map, meta, luns, objects>>
            /\ Done("create_cloned_volume", name, src, "UnknownVolume",
                    <<>>, None, None)
       ELSE \E fail_at \in FailPoints(3) :
            LET newLun == _allocate_lun_number(name_map)
                calls == Issued(<<Call("POST_clone", lunNumber, TRUE),
                                  Call("POST_iscsi", newLun, TRUE),
                                  Call("PUT_meta", None, TRUE)>>, fail_at)
            IN
            IF fail_at = 1
            THEN /\ UNCHANGED <<name_map, meta, luns, objects>>
                 /\ Done("create_cloned_volume", name, src, "RestError",
                         calls, None, None)
            ELSE IF newLun = None
            THEN /\ UNCHANGED <<name_map, meta, luns, objects>>
                 /\ Done("create_cloned_volume", name, src, "LunSpaceExhausted",
                         <<Call("POST_clone", lunNumber, TRUE)>>, None, None)
            ELSE IF fail_at = 2
            THEN /\ objects' = (IF TrackObjects THEN objects \cup {newLun} ELSE objects)
                 /\ UNCHANGED <<name_map, meta, luns>>
                 /\ Done("create_cloned_volume", name, src, "RestError",
                         calls, None, newLun)
            ELSE /\ objects' = (IF TrackObjects THEN objects \cup {newLun} ELSE objects)
                 /\ luns' = (IF TrackLuns THEN luns \cup {newLun} ELSE luns)
                 /\ name_map' = Put(name_map, name, newLun)
                 /\ meta' = IF fail_at = 3 THEN meta
                            ELSE _set_bucket_name_map(name_map')
                 /\ Done("create_cloned_volume", name, src,
                         IF fail_at = 3 THEN "RestError" ELSE "ok",
                         calls, None, newLun)

create_cloned_volume(name, src) ==
    /\ has_name_map
    /\ UNCHANGED <<track, has_name_map, target_name, setup>>
    /\ LET lunNumber == _get_lun_from_name(name_map, src) IN
       IF lunNumber = None
       THEN /\ UNCHANGED <<name_map, meta, luns, objects>>
            /\ Done("create_cloned_volume", name, src, "UnknownVolume",
                    <<>>, None, None)
       ELSE
       LET newLun == _allocate_lun_number(name_map) IN
       IF newLun = None
       THEN /\ UNCHANGED <<name_map, meta, luns, objects>>
            /\ Done("create_cloned_volume", name, src, "LunSpaceExhausted",
                    <<>>, None, None)
       ELSE \E fail_at \in FailPoints(3) :
            LET calls == Issued(<<Call("POST_clone", lunNumber, TRUE),
                                  Call("POST_iscsi", newLun, TRUE),
                                  Call("PUT_meta", None, TRUE)>>, fail_at)
            IN
            IF fail_at = 1
            THEN /\ UNCHANGED <<name_map, meta, luns, objects>>
                 /\ Done("create_cloned_volume", name, src, "RestError",
                         calls, None, newLun)
            ELSE IF fail_at = 2
            THEN /\ objects' = (IF TrackObjects THEN objects \cup {newLun} ELSE objects)
                 /\ UNCHANGED <<name_map, meta, luns>>
                 /\ Done("create_cloned_volume", name, src, "RestError",
                         calls, None, newLun)
            ELSE /\ objects' = (IF TrackObjects THEN objects \cup {newLun} ELSE objects)
                 /\ luns' = (IF TrackLuns THEN luns \cup {newLun} ELSE luns)
                 /\ name_map' = Put(name_map, name, newLun)
                 /\ meta' = IF fail_at = 3 THEN meta
                            ELSE _set_bucket_name_map(name_map')
                 /\ Done("create_cloned_volume", name, src,
                         IF fail_at = 3 THEN "RestError" ELSE "ok",
                         calls, None, newLun)

\* An initialize_connection that reports a fixed target_lun.
initialize_connection_fixed_lun(name) ==
    /\ has_name_map
    /\ UNCHANGED <<track, name_map, has_name_map, target_name, setup, meta, luns, objects>>
    /\ LET lunNumber == _get_lun_from_name(name_map, name) IN
       IF lunNumber = None
       THEN Done("initialize_connection", name, NoName, "UnknownVolume",
                 <<>>, None, None)
       ELSE Done("initialize_connection", name, NoName, "ok", <<>>, 1, lunNumber)

\* initialize_connection: ret is data['target_lun'].
initialize_connection(name) ==
    /\ has_name_map
    /\ UNCHANGED <<track, name_map, has_name_map, target_name, setup, meta, luns, objects>>
    /\ LET lunNumber == _get_lun_from_name(name_map, name) IN
       IF lunNumber = None
       THEN Done("initialize_connection", name, NoName, "UnknownVolume",
                 <<>>, None, None)
       ELSE Done("initialize_connection", name, NoName, "ok", <<>>, lunNumber, lunNumber)

Next ==
    \/ do_setup
    \/ \E name \in OpNames : create_volume(name)
    \/ \E name \in OpNames : delete_volume(name)
    \/ \E name \in OpNames : extend_volume(name)
    \/ \E name \in OpNames, src \in OpNames : create_volume_from_snapshot(name, src)
    \/ \E name \in OpNames : create_snapshot(name)
    \/ \E name \in OpNames : delete_snapshot(name)
    \/ \E name \in OpNames, src \in OpNames : create_cloned_volume(name, src)
    \/ \E name \in OpNames : initialize_connection(name)

Spec == Init /\ [][Next]_vars

SpecLuns == InitLuns /\ [][Next]_vars

SpecBackend == InitBackend /\ [][Next]_vars

\* ------------------------------------- concurrent create_volume calls ----

\* Two callers inside create_volume of one instance.  The method takes no
\* lock, so a caller can be overtaken wherever it waits for the backend: a
\* step is the code up to the next REST call's return.

\* Line 152: the caller scans self.name_map for a free number.
cv_allocate(t, name) ==
    /\ has_name_map
    /\ threads[t].pc = "idle"
    /\ \A u \in Threads \ {t} : threads[u].name # name
    /\ LET lunNumber == _allocate_lun_number(name_map) IN
       threads' = [threads EXCEPT ![t] =
                      [pc |-> IF lunNumber = None THEN "raised" ELSE "post",
                       name |-> name, lunNumber |-> lunNumber, body |-> NoBody]]
    /\ UNCHANGED <<name_map, has_name_map, target_name, setup, meta, track, luns,
                   created, objects, fails, last, prev, active, other>>

\* Lines 155-161: restapi.post('iscsi', ...) returns or raises.
cv_post(t) ==
    /\ threads[t].pc = "post"
    /\ \E fail_at \in FailPoints(1) :
         /\ threads' = [threads EXCEPT ![t].pc = IF fail_at = 1 THEN "raised" ELSE "assign"]
         /\ fails' = fails + fail_at
         /\ luns' = (IF TrackLuns /\ fail_at # 1
                     THEN luns \cup {threads[t].lunNumber} ELSE luns)
         /\ created' = (IF TrackCreated /\ fail_at # 1
                        THEN created \cup {threads[t].lunNumber} ELSE created)
    /\ UNCHANGED <<name_map, has_name_map, target_name, setup, meta, track,
                   objects, last, prev, active, other>>

\* Lines 163 and 121: the entry is assigned and the whole map is serialised
\* into the body of the PUT.
cv_assign(t) ==
    /\ threads[t].pc = "assign"
    /\ name_map' = Put(name_map, threads[t].name, threads[t].lunNumber)
    /\ threads' = [threads EXCEPT ![t].pc = "put",
                                  ![t].body = _set_bucket_name_map(name_map')]
    /\ UNCHANGED <<has_name_map, target_name, setup, meta, track, luns, created,
                   objects, fails, last, prev, active, other>>

\* Lines 119-121: restapi.put returns, the bucket now holding the body, or
\* raises.
cv_put(t) ==
    /\ threads[t].pc = "put"
    /\ \E fail_at \in FailPoints(1) :
         /\ threads' = [threads EXCEPT ![t].pc = IF fail_at = 1 THEN "raised" ELSE "returned"]
         /\ fails' = fails + fail_at
         /\ meta' = (IF fail_at = 1 THEN meta ELSE threads[t].body)
    /\ UNCHANGED <<name_map, has_name_map, target_name, setup, track, luns, created,
                   objects, last, prev, active, other>>

NextConcurrent ==
    \/ do_setup
    \/ \E t \in Threads, name \in OpNames : cv_allocate(t, name)
    \/ \E t \in Threads : cv_post(t)
    \/ \E t \in Threads : cv_assign(t)
    \/ \E t \in Threads : cv_put(t)

SpecConcurrent == InitLuns /\ [][NextConcurrent]_vars

\* ------------------------------------- two instances on one bucket ----

\* A second driver instance, with attributes of its own, works on the same
\* bucket.  The operations above act for the active instance; Switch hands
\* the turn to the other one.  Each instance reads the bucket in its own
\* do_setup only.
Switch ==
    /\ name_map' = other.name_map
    /\ has_name_map' = other.has_name_map
    /\ target_name' = other.target_name
    /\ setup' = other.setup
    /\ other' = [name_map |-> name_map, has_name_map |-> has_name_map,
                 target_name |-> target_name, setup |-> setup]
    /\ active' = (IF active = "A" THEN "B" ELSE "A")
    /\ UNCHANGED <<meta, track, luns, created, objects, fails, last, prev, threads>>

\* The two instances set up and create volumes in turn; create_volume saves
\* the map through _set_bucket_name_map as every map-changing operation does.
NextTwo ==
    \/ Switch
    \/ do_setup
    \/ \E name \in OpNames : create_volume(name)

SpecTwo == Init /\ [][NextTwo]_vars

\* ------------------------------------------------------------- claims ----
\* In a step of Next the unprimed variables are the state an operation starts
\* from, the primed ones the state it leaves, and last' says which operation
\* it was, with which arguments, REST calls and result.

\* The operations that allocate a LUN number.
CreateOps == {"create_volume", "create_volume_from_snapshot", "create_cloned_volume"}

\* The operations that look a volume up by last.name.
LookupOps == {"delete_volume", "extend_volume", "create_snapshot",
              "delete_snapshot", "initialize_connection"}

\* The operations that change the name map.
MutatingOps == CreateOps \cup {"delete_volume"}

\* The numbers of 1..255 that are no value of the map.
Free(map) == (1 .. LUN_MAX) \ Values(map)

IsFull(map) == Free(map) = {}

\* Operation r got as far as its call of _allocate_lun_number on map.
Allocates(r, map) ==
    /\ r.op \in CreateOps
    /\ r.op = "create_volume" \/ r.src \in DOMAIN map

\* Operation r issued the REST call kind / saw it fail.
Issues(r, kind) == \E i \in DOMAIN r.calls : r.calls[i].call = kind

CallFailed(r, kind) ==
    \E i \in DOMAIN r.calls : r.calls[i].call = kind /\ ~r.calls[i].ok

\* No two names of the map hold the same number, and every number is in 1..255.
ValidMap(map) ==
    /\ \A k \in DOMAIN map : map[k] \in 1 .. LUN_MAX
    /\ \A k1, k2 \in DOMAIN map : map[k1] = map[k2] => k1 = k2

\* C1: on a map with fewer than 255 distinct numbers in use the allocation of
\* create_volume, create_volume_from_snapshot and create_cloned_volume succeeds
\* and yields the smallest number of 1..255 that is no value of the map; and
\* the number a successful delete_volume released goes to the create_volume
\* right after it whenever it is the lowest free one.
C1_AllocateLowestFree ==
    [][ /\ ( /\ Allocates(last', name_map)
             /\ Cardinality(Values(name_map)) < LUN_MAX )
           => /\ last'.result # "LunSpaceExhausted"
              /\ last'.lun \in Free(name_map)
              /\ \A m \in Free(name_map) : last'.lun <= m
        /\ ( /\ last'.op = "create_volume"
             /\ last'.result = "ok"
             /\ prev'.op = "delete_volume"
             /\ \A m \in Free(name_map) : prev'.lun <= m )
           => /\ last'.lun = prev'.lun
              /\ name_map'[last'.name] = prev'.lun ]_vars

\* C1 witness: volumes 1 and 2 hold LUNs 1 and 2, volume 1 was deleted, and the
\* create_volume after it got LUN 1 again while LUN 2 stays in use.
C1_Witness ==
    /\ prev.op = "delete_volume" /\ prev.lun = 1
    /\ last.op = "create_volume" /\ last.result = "ok" /\ last.lun = 1
    /\ last.pre_map = (2 :> 2)
    /\ name_map = (last.name :> 1) @@ (2 :> 2)

\* C2 as stated: with all 255 numbers in use every create_volume,
\* create_volume_from_snapshot and create_cloned_volume fails with the
\* exhausted error, issues no REST call and leaves both maps as they were.
C2_Original ==
    [][ ( IsFull(name_map) /\ last'.op \in CreateOps )
        => /\ last'.result = "LunSpaceExhausted"
           /\ last'.calls = <<>>
           /\ name_map' = name_map
           /\ meta' = meta ]_vars

\* C2 amended: with all 255 numbers in use, create_volume and the
\* create_volume_from_snapshot / create_cloned_volume calls whose source volume
\* is in the map fail with the exhausted error; those whose source is not in
\* the map fail with the unknown-volume error; all of them issue no REST call
\* and leave both maps as they were.
C2_ExhaustedFailsClean ==
    [][ ( IsFull(name_map) /\ last'.op \in CreateOps )
        => /\ last'.result = IF Allocates(last', name_map)
                             THEN "LunSpaceExhausted" ELSE "UnknownVolume"
           /\ last'.calls = <<>>
           /\ name_map' = name_map
           /\ meta' = meta ]_vars

\* C2 witness: a clone of a known volume has just failed on a full map.
C2_Witness ==
    /\ IsFull(name_map)
    /\ last.op = "create_cloned_volume"
    /\ last.src \in DOMAIN name_map
    /\ last.result = "LunSpaceExhausted"
    /\ _get_bucket_name_map(meta) = name_map

\* C3: when the create LUN call of create_volume fails, the name map and the
\* bucket metadata are what they were before the call and no PUT was issued.
C3_CreateFailureLeavesMap ==
    [][ ( last'.op = "create_volume" /\ CallFailed(last', "POST_iscsi") )
        => /\ name_map' = name_map
           /\ meta' = meta
           /\ ~Issues(last', "PUT_meta")
           /\ last'.result = "RestError" ]_vars

\* C3 witness: create_volume for a new name has just failed at its POST.
C3_Witness ==
    /\ last.op = "create_volume"
    /\ CallFailed(last, "POST_iscsi")
    /\ last.name \notin DOMAIN name_map
    /\ name_map # EmptyMap

\* C4: when the delete LUN call of delete_volume fails, the name is still in
\* the map with the number it had, no PUT was issued and the call ends with an
\* error.
C4_DeleteFailureKeepsEntry ==
    [][ ( last'.op = "delete_volume" /\ CallFailed(last', "DELETE_iscsi") )
        => /\ last'.name \in DOMAIN name_map
           /\ last'.name \in DOMAIN name_map'
           /\ name_map'[last'.name] = name_map[last'.name]
           /\ name_map'[last'.name] = last'.lun
           /\ ~Issues(last', "PUT_meta")
           /\ meta' = meta
           /\ last'.result = "RestError" ]_vars

\* C4 witness: delete_volume of a mapped name has just failed at its DELETE.
C4_Witness ==
    /\ last.op = "delete_volume"
    /\ CallFailed(last, "DELETE_iscsi")
    /\ last.name \in DOMAIN name_map
    /\ name_map[last.name] = last.lun

\* C5 as stated: for every map and every name, a successful create_volume
\* followed at once by a successful delete_volume of the same name leaves the
\* map the create_volume started from.
C5_Original ==
    ( /\ last.op = "delete_volume" /\ last.result = "ok"
      /\ prev.op = "create_volume" /\ prev.name = last.name )
    => name_map = prev.pre_map

\* C5 amended: the same, for every name that is not a key of the map the
\* create_volume starts from.
C5_CreateThenDelete ==
    ( /\ last.op = "delete_volume" /\ last.result = "ok"
      /\ prev.op = "create_volume" /\ prev.name = last.name
      /\ prev.name \notin DOMAIN prev.pre_map )
    => name_map = prev.pre_map

\* C5 witness: a new name was created beside another volume and deleted again.
C5_Witness ==
    /\ last.op = "delete_volume" /\ last.result = "ok"
    /\ prev.op = "create_volume" /\ prev.name = last.name
    /\ prev.name \notin DOMAIN prev.pre_map
    /\ prev.pre_map # EmptyMap
    /\ name_map = prev.pre_map

\* C6: once do_setup has loaded the map, after every sequence of operations,
\* failed ones included, every value of the name map is in 1..255 and no two
\* names hold the same number.
C6_ValidMap == has_name_map => ValidMap(name_map)

\* C6 witness: after a failed REST call, two of the names the operations use
\* are in the map.
C6_Witness ==
    /\ fails > 0
    /\ Cardinality(DOMAIN name_map \cap OpNames) >= 2
    /\ ValidMap(name_map)

\* C7: a lookup fails with the unknown-volume error exactly when the name is
\* no key of the map; otherwise it yields the stored number, and
\* initialize_connection reports that number as target_lun.
C7_Lookup ==
    [][ /\ last'.op \in LookupOps
           => /\ (last'.result = "UnknownVolume") <=> (last'.name \notin DOMAIN name_map)
              /\ last'.name \in DOMAIN name_map => last'.lun = name_map[last'.name]
        /\ last'.op \in {"create_volume_from_snapshot", "create_cloned_volume"}
           => /\ (last'.result = "UnknownVolume") <=> (last'.src \notin DOMAIN name_map)
              /\ last'.calls # <<>> => last'.calls[1].n = name_map[last'.src]
        /\ last'.op = "initialize_connection"
           => IF last'.name \in DOMAIN name_map
              THEN last'.result = "ok" /\ last'.ret = name_map[last'.name]
              ELSE last'.result = "UnknownVolume" /\ last'.ret = None ]_vars

\* C7 witness: initialize_connection has just reported LUN 2 for a volume.
C7_Witness ==
    /\ last.op = "initialize_connection"
    /\ last.result = "ok"
    /\ last.ret = 2
    /\ name_map[last.name] = 2

\* C8: an operation that ends with the unknown-volume or the exhausted error
\* has issued no REST call.
C8_LocalFailuresFirst ==
    ( /\ last.op \in LookupOps \cup CreateOps
      /\ last.result \in {"UnknownVolume", "LunSpaceExhausted"} )
    => last.calls = <<>>

\* C8 witness: a create_volume_from_snapshot whose source is known has just
\* failed for want of a free number.
C8_Witness ==
    /\ last.op = "create_volume_from_snapshot"
    /\ last.src \in DOMAIN name_map
    /\ last.result = "LunSpaceExhausted"
    /\ last.calls = <<>>

\* C9 as stated: when the metadata PUT of a map-changing operation fails, the
\* operation fails and the name map is what it was before the operation.
C9_PutFailureRollsBack ==
    [][ ( last'.op \in MutatingOps /\ CallFailed(last', "PUT_meta") )
        => /\ last'.result # "ok"
           /\ name_map' = name_map ]_vars

\* C10 as stated: after setup, between operations, the map the bucket's
\* X-Name-Map holds is the in-memory map.
C10_PersistedEqualsMemory ==
    has_name_map => _get_bucket_name_map(meta) = name_map

\* C11 as stated: after setup, between operations, the LUN numbers the name map
\* holds are exactly the LUNs that exist on the backend.
C11_Original ==
    has_name_map => Values(name_map) = luns

\* C11: between operations every number the name map holds is a LUN that exists
\* on the backend, and an operation keeps the two sets equal unless it is a
\* create (plain, clone or from snapshot) under a name the map already holds.
C11_MapMatchesBackend ==
    [][ has_name_map' =>
          /\ Values(name_map') \subseteq luns'
          /\ ( /\ has_name_map => Values(name_map) = luns
               /\ ~(last'.op \in CreateOps /\ last'.name \in DOMAIN name_map) )
             => Values(name_map') = luns' ]_vars

C11_Witness ==
    /\ last.op = "delete_volume"
    /\ last.result = "ok"
    /\ prev.op = "create_volume"
    /\ name_map # EmptyMap
    /\ Values(name_map) = luns

\* A driver started on a bucket that holds no X-Name-Map, the numbers of its
\* successful create-LUN calls followed.
InitEmpty == InitDriver /\ track = "created" /\ ~meta.has

SpecEmpty == InitEmpty /\ [][Next]_vars

\* C12: started from an empty map, every number an entry of the in-memory map
\* or of the persisted map holds is a number for which a create-LUN call has
\* succeeded before.
C12_EntriesWereCreated ==
    /\ Values(name_map) \subseteq created
    /\ Values(_get_bucket_name_map(meta)) \subseteq created

\* The bucket still names a LUN that was created and has been deleted since:
\* the PUT of the delete_volume failed.
C12_Witness ==
    /\ last.op = "delete_volume"
    /\ CallFailed(last, "PUT_meta")
    /\ name_map # EmptyMap
    /\ last.lun \in Values(_get_bucket_name_map(meta)) \ Values(name_map)
    /\ last.lun \in created

\* The operations that only read the name map.
ReadOnlyOps == {"extend_volume", "create_snapshot", "delete_snapshot",
                "initialize_connection"}

\* C13: extend_volume, create_snapshot, delete_snapshot and
\* initialize_connection leave the in-memory map and the persisted map as they
\* were, whether they succeed or fail, and initialize_connection issues no
\* REST call.
C13_ReadOnlyOpsKeepMaps ==
    [][ last'.op \in ReadOnlyOps
        => /\ name_map' = name_map
           /\ meta' = meta
           /\ _get_bucket_name_map(meta') = _get_bucket_name_map(meta)
           /\ last'.op = "initialize_connection" => last'.calls = <<>> ]_vars

C13_Witness ==
    /\ last.op = "delete_snapshot"
    /\ last.result = "ok"
    /\ Issues(last, "DELETE_snapshot")
    /\ last.name \in DOMAIN name_map
    /\ _get_bucket_name_map(meta) = name_map

\* C14 as stated: an operation one of whose REST calls failed ends with the
\* error raised; do_setup in particular never returns normally after its
\* status GET or its bucket GET failed.
C14_RestFailureRaises ==
    (\E i \in DOMAIN last.calls : ~last.calls[i].ok)
        => /\ last.result = "RestError"
           /\ last.op = "do_setup" => setup = "raised"

\* The callers that hold a number: allocated, and not yet known to have failed.
Holding(t) == threads[t].pc \in {"post", "assign", "put", "returned"}

\* C15 as stated: two concurrent create_volume calls for different names on
\* one instance never hold the same LUN number, and when both have returned
\* the map has an entry for each name, with different numbers.
C15_ConcurrentCreatesDistinct ==
    \A t \in Threads : \A u \in Threads \ {t} :
        /\ (Holding(t) /\ Holding(u)) => threads[t].lunNumber # threads[u].lunNumber
        /\ (threads[t].pc = "returned" /\ threads[u].pc = "returned")
           => /\ {threads[t].name, threads[u].name} \subseteq DOMAIN name_map
              /\ name_map[threads[t].name] # name_map[threads[u].name]

\* A step of the active instance that ended with a successful PUT of X-Name-Map.
Persisted ==
    /\ active' = active
    /\ last'.op \in MutatingOps
    /\ \E i \in DOMAIN last'.calls :
          last'.calls[i].call = "PUT_meta" /\ last'.calls[i].ok

\* C16: with two instances on one bucket, after every successful save by one
\* instance the persisted map is that instance's in-memory map exactly,
\* whatever the other instance had saved, and no operation but do_setup reads
\* the bucket's map.
C16_BlindOverwrite ==
    [][ /\ Persisted => _get_bucket_name_map(meta') = name_map'
        /\ (active' = active /\ last'.op # "do_setup") => ~Issues(last', "GET_bucket")
      ]_vars

\* No REST call has failed, so the entry the other instance holds was saved by
\* it; the active instance, set up before that, has just saved its own map and
\* the bucket no longer holds that entry.
C16_Witness ==
    /\ fails = 0
    /\ other.has_name_map
    /\ last.op = "create_volume"
    /\ last.result = "ok"
    /\ last.name \in DOMAIN name_map
    /\ \E k \in DOMAIN other.name_map :
          /\ k \notin DOMAIN name_map
          /\ k \notin DOMAIN _get_bucket_name_map(meta)

CopyOps == {"create_cloned_volume", "create_volume_from_snapshot"}

\* C17 as stated: after a successful create_cloned_volume or
\* create_volume_from_snapshot the source name holds the number it held
\* before, and the new name holds the newly allocated number, which is not
\* the source's.
C17_Original ==
    [][ (last'.op \in CopyOps /\ last'.result = "ok")
        => /\ last'.src \in DOMAIN name_map'
           /\ name_map'[last'.src] = name_map[last'.src]
           /\ last'.name \in DOMAIN name_map'
           /\ name_map'[last'.name] = last'.lun
           /\ last'.lun # name_map[last'.src] ]_vars

\* C17: the same, for a new name that is not the source's name; the number
\* the new name holds is one no entry held before.
C17_CopyKeepsSource ==
    [][ (last'.op \in CopyOps /\ last'.result = "ok" /\ last'.name # last'.src)
        => /\ last'.src \in DOMAIN name_map'
           /\ name_map'[last'.src] = name_map[last'.src]
           /\ last'.name \in DOMAIN name_map'
           /\ name_map'[last'.name] = last'.lun
           /\ last'.lun = _allocate_lun_number(name_map)
           /\ last'.lun \notin Values(name_map)
           /\ last'.lun # name_map[last'.src] ]_vars

C17_Witness ==
    /\ last.op \in CopyOps
    /\ last.result = "ok"
    /\ last.name # last.src
    /\ {last.name, last.src} \subseteq DOMAIN name_map
    /\ name_map[last.name] = last.lun
    /\ name_map[last.src] # last.lun

\* C18: in every operation the REST call that fails is the last one issued, no
\* REST call is issued twice, and a failed clone, snapshot-restore or
\* create-LUN call leaves the in-memory map and the persisted map unchanged.
C18_AbortOnFirstFailure ==
    [][   /\ \A i \in DOMAIN last'.calls :
                ~last'.calls[i].ok => i = Len(last'.calls)
          /\ \A i \in DOMAIN last'.calls : \A j \in DOMAIN last'.calls :
                i # j => last'.calls[i].call # last'.calls[j].call
          /\ ( \/ CallFailed(last', "POST_clone")
               \/ CallFailed(last', "POST_restore")
               \/ CallFailed(last', "POST_iscsi") )
             => /\ name_map' = name_map
                /\ meta' = meta
                /\ ~Issues(last', "PUT_meta") ]_vars

C18_Witness ==
    /\ last.op = "create_cloned_volume"
    /\ last.result = "RestError"
    /\ Len(last.calls) = 2
    /\ last.calls[1].call = "POST_clone" /\ last.calls[1].ok
    /\ last.calls[2].call = "POST_iscsi" /\ ~last.calls[2].ok
    /\ last.name \notin DOMAIN name_map

\* C19 as stated: when create_cloned_volume or create_volume_from_snapshot
\* fails at the create-LUN call after its clone or snapshot-restore call
\* succeeded, the backend is what it was before the operation: no object
\* named after the new LUN number is left.
C19_FailedCopyRestoresBackend ==
    [][ ( /\ last'.op \in CopyOps
          /\ Len(last'.calls) = 2
          /\ last'.calls[1].ok
          /\ CallFailed(last', "POST_iscsi") )
        => /\ objects' = objects
           /\ luns' = luns
           /\ last'.lun \notin objects' ]_vars

\* C20: right after a map-changing operation has returned successfully, the
\* map the bucket's X-Name-Map holds is the whole in-memory map, also when an
\* earlier operation changed the in-memory map and failed at its PUT.
C20_SaveWritesWholeMap ==
    (last.op \in MutatingOps /\ last.result = "ok")
        => _get_bucket_name_map(meta) = name_map

\* The operation started with a bucket that lagged behind the in-memory map
\* and has saved both its own entry and the earlier one.
C20_Witness ==
    /\ last.op = "create_volume"
    /\ last.result = "ok"
    /\ last.stale
    /\ last.pre_map # EmptyMap
    /\ DOMAIN last.pre_map # DOMAIN name_map
    /\ _get_bucket_name_map(meta) = name_map

====
